---- MODULE Spec2Model ----
(***************************************************************************)
(* Formula trees of vkryukov/digits (src/node.go): construction, Polish    *)
(* notation (ToPolish / FromPolish), evaluation (Eval) and canonical form  *)
(* (Simplify with transformDuo / transformTrio).                           *)
(***************************************************************************)
EXTENDS Integers, Sequences, FiniteSets, TLC

\* ------------------------------------------------------------------------
\* Bounds of the model
\* ------------------------------------------------------------------------
MaxOps == 3          \* operator nodes in a tree the driver builds
MaxExp == 2          \* largest |exponent| the numeric type raises to
MaxFact == 3         \* largest argument the numeric type takes a factorial of
MaxFuel == 24        \* nesting depth of Simplify calls that is followed
MaxText == 6         \* characters of a text the driver types

\* ------------------------------------------------------------------------
\* Op (node.go 10-49)
\* ------------------------------------------------------------------------
OpNull == 0
OpAdd == 1
OpSub == 2
OpMul == 3
OpDiv == 4
OpPow == 5
OpFact == 6
OpSqrt == 7
OpMinus == 8

Ops == OpNull..OpMinus

unary(op) == op >= OpFact

binary(op) == op >= OpAdd /\ op <= OpPow

opNames(op) ==
  CASE op = OpNull -> <<"n", "u", "l", "l">>
    [] op = OpAdd -> <<"+">>
    [] op = OpSub -> <<"-">>
    [] op = OpMul -> <<"*">>
    [] op = OpDiv -> <<"/">>
    [] op = OpPow -> <<"^">>
    [] op = OpFact -> <<"!">>
    [] op = OpSqrt -> <<"s", "q", "r", "t">>
    [] op = OpMinus -> <<"-", "-">>

\* ------------------------------------------------------------------------
\* Value: the rational type behind the Value interface (node.go 52-65).
\* A value is num/den in lowest terms with den > 0.
\* ------------------------------------------------------------------------
Abs(i) == IF i < 0 THEN -i ELSE i

RECURSIVE Gcd(_, _)
Gcd(a, b) == IF b = 0 THEN a ELSE Gcd(b, a % b)

Rat(n, d) ==
  LET g == Gcd(Abs(n), Abs(d))
      s == IF d < 0 THEN -1 ELSE 1
  IN [num |-> s * (n \div g), den |-> s * (d \div g)]

IntVal(i) == [num |-> i, den |-> 1]

NoVal == [none |-> TRUE]      \* a nil Value

NoErr == ""

IsInteger(v) == v.den = 1
Negative(v) == v.num < 0
Even(v) == v.den = 1 /\ v.num % 2 = 0
Zero(v) == v.num = 0
One(v) == v.num = 1 /\ v.den = 1
MinusOne(v) == v.num = -1 /\ v.den = 1
ValEqual(v, w) == v.num = w.num /\ v.den = w.den

RECURSIVE IntPow(_, _)
IntPow(b, e) == IF e = 0 THEN 1 ELSE b * IntPow(b, e - 1)

RECURSIVE Factorial(_)
Factorial(i) == IF i <= 1 THEN 1 ELSE i * Factorial(i - 1)

\* the integer square root of a perfect square, -1 when i is none
ISqrt(i) ==
  IF \E r \in 0..i : r * r = i THEN CHOOSE r \in 0..i : r * r = i ELSE -1

Ok(v) == [val |-> v, err |-> NoErr]
Fail(e) == [val |-> NoVal, err |-> e]

PerformBinary(v, op, w) ==
  CASE op = OpAdd -> Ok(Rat(v.num * w.den + w.num * v.den, v.den * w.den))
    [] op = OpSub -> Ok(Rat(v.num * w.den - w.num * v.den, v.den * w.den))
    [] op = OpMul -> Ok(Rat(v.num * w.num, v.den * w.den))
    [] op = OpDiv -> IF Zero(w) THEN Fail("division by zero")
                     ELSE Ok(Rat(v.num * w.den, v.den * w.num))
    [] op = OpPow ->
         IF ~IsInteger(w) THEN Fail("non-integer power")
         ELSE IF Abs(w.num) > MaxExp THEN Fail("power too large")
         ELSE IF w.num >= 0
              THEN Ok(Rat(IntPow(v.num, w.num), IntPow(v.den, w.num)))
         ELSE IF Zero(v) THEN Fail("division by zero")
         ELSE Ok(Rat(IntPow(v.den, -w.num), IntPow(v.num, -w.num)))
    [] OTHER -> Fail("not a binary operator")

PerformUnary(v, op) ==
  CASE op = OpMinus -> Ok(Rat(-v.num, v.den))
    [] op = OpFact ->
         IF ~IsInteger(v) \/ Negative(v) THEN Fail("invalid factorial argument")
         ELSE IF v.num > MaxFact THEN Fail("factorial too large")
         ELSE Ok(IntVal(Factorial(v.num)))
    [] op = OpSqrt ->
         IF Negative(v) THEN Fail("root of a negative value")
         ELSE IF ISqrt(v.num) < 0 \/ ISqrt(v.den) < 0 THEN Fail("root is not rational")
         ELSE Ok(Rat(ISqrt(v.num), ISqrt(v.den)))
    [] OTHER -> Fail("not a unary operator")

\* ------------------------------------------------------------------------
\* Node (node.go 70-105)
\* ------------------------------------------------------------------------
Nil == [nil |-> TRUE]         \* a nil *Node

Node(l, o, r, v) == [left |-> l, right |-> r, val |-> v, op |-> o]

valid(n) ==
  IF n.op = OpNull THEN n.left = Nil /\ n.right = Nil
  ELSE IF n.op <= OpPow THEN n.left # Nil /\ n.right # Nil
  ELSE n.left # Nil /\ n.right = Nil

newValNode(v) == Node(Nil, OpNull, Nil, v)

newIntNode(i) == newValNode(IntVal(i))

\* newNode panics on a node that is not valid; callers guard with valid(.)
newNode(l, o, r) == Node(l, o, r, NoVal)

RECURSIVE Equal(_, _)
Equal(n, n1) ==
  IF n1 = Nil \/ n.op # n1.op THEN FALSE
  ELSE IF n.op # OpNull
       THEN Equal(n.left, n1.left) /\ (n.right = Nil \/ Equal(n.right, n1.right))
  ELSE ValEqual(n.val, n1.val)

RECURSIVE Depth(_)
Depth(n) ==
  IF n.op = OpNull THEN 0
  ELSE LET dl == Depth(n.left)
           dr == IF n.right # Nil THEN Depth(n.right) ELSE 0
       IN (IF dr > dl THEN dr ELSE dl) + 1

\* ------------------------------------------------------------------------
\* Eval (node.go 232-255).  The result is the pair (Value, error) together
\* with the number of Eval calls made to produce it.
\* ------------------------------------------------------------------------
ZeroRat == [num |-> 0, den |-> 0]     \* rational{}

\* Eval with the right child of a binary node evaluated before the left one
RECURSIVE EvalRightFirst(_)
EvalRightFirst(n) ==
  IF ~valid(n) THEN [val |-> ZeroRat, err |-> "invalid formula", calls |-> 1]
  ELSE IF n.op = OpNull THEN [val |-> n.val, err |-> NoErr, calls |-> 1]
  ELSE IF binary(n.op) THEN
    LET xr == EvalRightFirst(n.right) IN
    IF xr.err # NoErr THEN [val |-> n.val, err |-> xr.err, calls |-> 1 + xr.calls]
    ELSE LET xl == EvalRightFirst(n.left) IN
      IF xl.err # NoErr
      THEN [val |-> n.val, err |-> xl.err, calls |-> 1 + xl.calls + xr.calls]
      ELSE LET xp == PerformBinary(xl.val, n.op, xr.val)
           IN [val |-> xp.val, err |-> xp.err, calls |-> 1 + xl.calls + xr.calls]
  ELSE
    LET xu == EvalRightFirst(n.left) IN
    IF xu.err # NoErr THEN [val |-> n.val, err |-> xu.err, calls |-> 1 + xu.calls]
    ELSE LET xq == PerformUnary(xu.val, n.op)
         IN [val |-> xq.val, err |-> xq.err, calls |-> 1 + xu.calls]

RECURSIVE Eval(_)
Eval(n) ==
  IF ~valid(n) THEN [val |-> ZeroRat, err |-> "invalid formula", calls |-> 1]
  ELSE IF n.op = OpNull THEN [val |-> n.val, err |-> NoErr, calls |-> 1]
  ELSE IF binary(n.op) THEN
    LET el == Eval(n.left) IN
    IF el.err # NoErr THEN [val |-> n.val, err |-> el.err, calls |-> 1 + el.calls]
    ELSE LET er == Eval(n.right) IN
      IF er.err # NoErr
      THEN [val |-> n.val, err |-> er.err, calls |-> 1 + el.calls + er.calls]
      ELSE LET ep == PerformBinary(el.val, n.op, er.val)
           IN [val |-> ep.val, err |-> ep.err, calls |-> 1 + el.calls + er.calls]
  ELSE
    LET ul == Eval(n.left) IN
    IF ul.err # NoErr THEN [val |-> n.val, err |-> ul.err, calls |-> 1 + ul.calls]
    ELSE LET up == PerformUnary(ul.val, n.op)
         IN [val |-> up.val, err |-> up.err, calls |-> 1 + ul.calls]

\* ------------------------------------------------------------------------
\* ToPolish (node.go 122-141) and the text form of a value.  A string is a
\* sequence of one-character strings.
\* ------------------------------------------------------------------------
Digits == <<"0", "1", "2", "3", "4", "5", "6", "7", "8", "9">>

IsDigit(c) == \E i \in 1..Len(Digits) : Digits[i] = c

DigitVal(c) == (CHOOSE i \in 1..Len(Digits) : Digits[i] = c) - 1

RECURSIVE NatToStr(_)
NatToStr(i) ==
  IF i < 10 THEN <<Digits[i + 1]>>
  ELSE NatToStr(i \div 10) \o <<Digits[(i % 10) + 1]>>

\* rational.String(): "num/den"
String(v) ==
  (IF v.num < 0 THEN <<"-">> ELSE <<>>) \o NatToStr(Abs(v.num)) \o <<"/">> \o NatToStr(v.den)

InvalidText == <<"invalid formula">>

\* ToPolish without the blank between an operator and its first operand
RECURSIVE ToPolishTight(_)
ToPolishTight(n) ==
  IF ~valid(n) THEN InvalidText
  ELSE IF n.op = OpNull THEN String(n.val)
  ELSE LET qs == IF n.op # OpMinus THEN opNames(n.op) ELSE <<"-", "-">>
       IN qs \o ToPolishTight(n.left)
             \o (IF binary(n.op) THEN <<" ">> \o ToPolishTight(n.right) ELSE <<>>)

RECURSIVE ToPolish(_)
ToPolish(n) ==
  IF ~valid(n) THEN InvalidText
  ELSE IF n.op = OpNull THEN String(n.val)
  ELSE LET ps == IF n.op # OpMinus THEN opNames(n.op) ELSE <<"-", "-">>
       IN ps \o <<" ">> \o ToPolish(n.left)
             \o (IF binary(n.op) THEN <<" ">> \o ToPolish(n.right) ELSE <<>>)

\* ------------------------------------------------------------------------
\* parseNodeFromString, FromPolish (node.go 112-119, 145-202)
\* ------------------------------------------------------------------------
IsSpace(c) == c \in {" ", "\t", "\n"}

Drop(s, i) == SubSeq(s, i + 1, Len(s))          \* s[i:]

Take(s, i) == SubSeq(s, 1, i)                   \* s[:i]

HasPrefix(s, p) == Len(s) >= Len(p) /\ Take(s, Len(p)) = p

RECURSIVE TrimLeft(_)
TrimLeft(s) == IF s # <<>> /\ IsSpace(s[1]) THEN TrimLeft(Tail(s)) ELSE s

RECURSIVE TrimRight(_)
TrimRight(s) ==
  IF s # <<>> /\ IsSpace(s[Len(s)]) THEN TrimRight(Take(s, Len(s) - 1)) ELSE s

TrimSpace(s) == TrimRight(TrimLeft(s))

\* the number of digits of s from position i + 1 on
RECURSIVE DigitRun(_, _)
DigitRun(s, i) ==
  IF i < Len(s) /\ IsDigit(s[i + 1]) THEN 1 + DigitRun(s, i + 1) ELSE 0

\* the number of blanks of s from position i + 1 on
RECURSIVE SpaceRun(_, _)
SpaceRun(s, i) ==
  IF i < Len(s) /\ IsSpace(s[i + 1]) THEN 1 + SpaceRun(s, i + 1) ELSE 0

\* ratRx.FindStringIndex(s) for ^\s*-?[0-9]+(/[0-9]+)? : the end of the match,
\* 0 when there is none
ratRx(s) ==
  LET i0 == SpaceRun(s, 0)
      i1 == IF i0 < Len(s) /\ s[i0 + 1] = "-" THEN i0 + 1 ELSE i0
      d1 == DigitRun(s, i1)
      i2 == i1 + d1
      d2 == IF i2 < Len(s) /\ s[i2 + 1] = "/" THEN DigitRun(s, i2 + 1) ELSE 0
  IN IF d1 = 0 THEN 0 ELSE IF d2 = 0 THEN i2 ELSE i2 + 1 + d2

RECURSIVE StrToNat(_)
StrToNat(s) ==
  IF s = <<>> THEN 0 ELSE 10 * StrToNat(Take(s, Len(s) - 1)) + DigitVal(s[Len(s)])

newRational(n, d) ==
  IF d = 0 THEN Fail("zero denominator") ELSE Ok(Rat(n, d))

\* s matches -?[0-9]+(/[0-9]+)?
newRationalFromString(s) ==
  LET neg == s[1] = "-"
      body == IF neg THEN Tail(s) ELSE s
      dn == DigitRun(body, 0)
      n == StrToNat(Take(body, dn))
      d == IF dn < Len(body) THEN StrToNat(Drop(body, dn + 1)) ELSE 1
  IN newRational(IF neg THEN -n ELSE n, d)

\* the loop over opNames comparing each name with the first character
OpOfChar(c) ==
  IF \E o \in Ops : opNames(o) = <<c>>
  THEN LET po == CHOOSE o \in Ops : opNames(o) = <<c>>
       IN IF po = OpMinus THEN OpSub ELSE po
  ELSE OpNull

Parsed(n, rest, e) == [node |-> n, rest |-> rest, err |-> e]

RECURSIVE parseNodeFromString(_)

\* parseOperands that passes on the error of the second operand
parseOperandsRaw(op, s) ==
  IF s = <<>> THEN Parsed(Nil, s, "first operand missing")
  ELSE
    LET q1 == parseNodeFromString(s) IN
    IF q1.err # NoErr THEN Parsed(Nil, q1.rest, q1.err)
    ELSE IF unary(op) THEN Parsed(newNode(q1.node, op, Nil), q1.rest, NoErr)
    ELSE
      LET q2 == parseNodeFromString(q1.rest) IN
      IF q2.err # NoErr THEN Parsed(Nil, q2.rest, q2.err)
      ELSE Parsed(newNode(q1.node, op, q2.node), q2.rest, NoErr)

\* parseNodeFromString from the point where operator op was read and s follows
parseOperands(op, s) ==
  IF s = <<>> THEN Parsed(Nil, s, "first operand missing")
  ELSE
    LET p1 == parseNodeFromString(s) IN
    IF p1.err # NoErr THEN Parsed(Nil, p1.rest, p1.err)
    ELSE IF unary(op) THEN Parsed(newNode(p1.node, op, Nil), p1.rest, NoErr)
    ELSE
      LET p2 == parseNodeFromString(p1.rest) IN
      IF p2.err # NoErr THEN Parsed(Nil, p2.rest, "second operand missing")
      ELSE Parsed(newNode(p1.node, op, p2.node), p2.rest, NoErr)

parseNodeFromString(s0) ==
  LET ts == TrimSpace(s0)
      ind == ratRx(ts)
  IN
  IF ind # 0 THEN
    LET pv == newRationalFromString(TrimSpace(Take(ts, ind))) IN
    IF pv.err # NoErr THEN Parsed(Nil, Drop(ts, ind), pv.err)
    ELSE Parsed(newValNode(pv.val), Drop(ts, ind), NoErr)
  ELSE IF ts = <<>> THEN Parsed(Nil, <<>>, "empty string")
  ELSE IF HasPrefix(ts, opNames(OpSqrt)) THEN parseOperands(OpSqrt, Drop(ts, 4))
  ELSE IF HasPrefix(ts, <<"-", "-">>) THEN parseOperands(OpMinus, Drop(ts, 2))
  ELSE
    LET pop == OpOfChar(ts[1]) IN
    IF pop = OpNull THEN Parsed(Nil, Drop(ts, 1), "unrecognized operator")
    ELSE parseOperands(pop, Drop(ts, 1))

\* FromPolish returns (node, error); the error wraps the input and the reason
FromPolish(s0) ==
  LET fs == TrimSpace(s0)
      fp == parseNodeFromString(fs)
  IN IF fp.err # NoErr
     THEN [node |-> Nil, err |-> "cannot parse", input |-> fs, reason |-> fp.err]
     ELSE [node |-> fp.node, err |-> NoErr, input |-> fs, reason |-> NoErr]

\* ------------------------------------------------------------------------
\* Simplify, transformDuo, transformTrio (node.go 259-355).
\* Each returns [node, fresh, out, bad]: the node returned; whether it is
\* another pointer than the receiver (the code compares pointers: n1 == n,
\* l != n.left); whether some call nested deeper than the fuel allows; and
\* whether a node literal built on the way is not valid.
\* ------------------------------------------------------------------------
Same(n, o, b) == [node |-> n, fresh |-> FALSE, out |-> o, bad |-> b]

New(n, o, b) == [node |-> n, fresh |-> TRUE, out |-> o, bad |-> b \/ ~valid(n)]

\* the table with (--a) + b turned into --(a + b)
DuoRulesWrongSign ==
  << <<OpNull, OpAdd, OpMinus, OpNull, OpSub>>,
     <<OpNull, OpAdd, OpMinus, OpNull, OpSub>>,
     <<OpNull, OpSub, OpMinus, OpNull, OpAdd>>,
     <<OpMinus, OpSub, OpNull, OpMinus, OpAdd>>,
     <<OpMinus, OpAdd, OpNull, OpMinus, OpAdd>>,
     <<OpMinus, OpMul, OpMinus, OpNull, OpMul>>,
     <<OpMinus, OpDiv, OpMinus, OpNull, OpDiv>>,
     <<OpMinus, OpMul, OpNull, OpMinus, OpMul>>,
     <<OpMinus, OpDiv, OpNull, OpMinus, OpDiv>>,
     <<OpNull, OpMul, OpMinus, OpMinus, OpMul>>,
     <<OpNull, OpDiv, OpMinus, OpMinus, OpDiv>>,
     <<OpSqrt, OpMul, OpSqrt, OpSqrt, OpMul>>,
     <<OpSqrt, OpDiv, OpSqrt, OpSqrt, OpDiv>> >>

DuoRules ==
  << <<OpNull, OpAdd, OpMinus, OpNull, OpSub>>,
     <<OpNull, OpAdd, OpMinus, OpNull, OpSub>>,
     <<OpNull, OpSub, OpMinus, OpNull, OpAdd>>,
     <<OpMinus, OpSub, OpNull, OpMinus, OpAdd>>,
     <<OpMinus, OpAdd, OpNull, OpMinus, OpSub>>,
     <<OpMinus, OpMul, OpMinus, OpNull, OpMul>>,
     <<OpMinus, OpDiv, OpMinus, OpNull, OpDiv>>,
     <<OpMinus, OpMul, OpNull, OpMinus, OpMul>>,
     <<OpMinus, OpDiv, OpNull, OpMinus, OpDiv>>,
     <<OpNull, OpMul, OpMinus, OpMinus, OpMul>>,
     <<OpNull, OpDiv, OpMinus, OpMinus, OpDiv>>,
     <<OpSqrt, OpMul, OpSqrt, OpSqrt, OpMul>>,
     <<OpSqrt, OpDiv, OpSqrt, OpSqrt, OpDiv>> >>

\* the table with a-(b-c) turned into (a+b)-c and a/(b/c) into (a*b)/c
TrioRulesSwapped ==
  << <<OpAdd, OpAdd, OpAdd, OpAdd>>,
     <<OpSub, OpSub, OpAdd, OpSub>>,
     <<OpMul, OpMul, OpMul, OpMul>>,
     <<OpDiv, OpDiv, OpMul, OpDiv>> >>

TrioRules ==
  << <<OpAdd, OpAdd, OpAdd, OpAdd>>,
     <<OpSub, OpSub, OpSub, OpAdd>>,
     <<OpMul, OpMul, OpMul, OpMul>>,
     <<OpDiv, OpDiv, OpDiv, OpMul>> >>

RECURSIVE Simplify(_, _)

transformDuo(n, op1, op2, op3, op4, op5, k) ==
  IF n.op = op2 THEN
    LET dlw == n.left.op = op1 /\ n.left.left # Nil
        da == IF dlw THEN Simplify(n.left.left, k) ELSE Simplify(n.left, k)
    IN IF ~dlw /\ op1 # OpNull THEN Same(n, FALSE, FALSE)
       ELSE
         LET drw == n.right.op = op3 /\ n.right.left # Nil
             db == IF drw THEN Simplify(n.right.left, k) ELSE Simplify(n.right, k)
         IN IF ~drw /\ op3 # OpNull THEN Same(n, da.out, da.bad)
            ELSE
              LET dn1 == Node(da.node, op5, db.node, NoVal)
              IN IF op4 # OpNull
                 THEN LET ds == Simplify(dn1, k)
                      IN New(Node(ds.node, op4, Nil, NoVal),
                             da.out \/ db.out \/ ds.out,
                             da.bad \/ db.bad \/ ds.bad \/ ~valid(dn1))
                 ELSE New(dn1, da.out \/ db.out, da.bad \/ db.bad)
  ELSE Same(n, FALSE, FALSE)

\* transformTrio that nests the new inner node on the right: a op4 (b op3 c)
transformTrioRight(n, op1, op2, op3, op4, k) ==
  IF n.op = op1 /\ n.right.op = op2 THEN
    LET ua == Simplify(n.left, k)
        ub == Simplify(n.right.left, k)
        uc == Simplify(n.right.right, k)
        un1 == Node(ub.node, op3, uc.node, NoVal)
        us == Simplify(un1, k)
    IN New(Node(ua.node, op4, us.node, NoVal),
           ua.out \/ ub.out \/ us.out \/ uc.out,
           ua.bad \/ ub.bad \/ us.bad \/ uc.bad \/ ~valid(un1))
  ELSE Same(n, FALSE, FALSE)

transformTrio(n, op1, op2, op3, op4, k) ==
  IF n.op = op1 /\ n.right.op = op2 THEN
    LET ta == Simplify(n.left, k)
        tb == Simplify(n.right.left, k)
        tn1 == Node(ta.node, op3, tb.node, NoVal)
        ts == Simplify(tn1, k)
        tc == Simplify(n.right.right, k)
    IN New(Node(ts.node, op4, tc.node, NoVal),
           ta.out \/ tb.out \/ ts.out \/ tc.out,
           ta.bad \/ tb.bad \/ ts.bad \/ tc.bad \/ ~valid(tn1))
  ELSE Same(n, FALSE, FALSE)

\* the loop over the table of transformDuo: rules i.. applied to n1 in turn;
\* f tells whether n1 is already another node than the receiver of Simplify
RECURSIVE DuoLoop(_, _, _, _, _, _)
DuoLoop(n1, f, o, b, i, k) ==
  IF i > Len(DuoRules) THEN [node |-> n1, fresh |-> f, out |-> o, bad |-> b]
  ELSE LET drule == DuoRules[i]
           dx == transformDuo(n1, drule[1], drule[2], drule[3], drule[4], drule[5], k)
       IN IF dx.fresh THEN DuoLoop(dx.node, TRUE, o \/ dx.out, b \/ dx.bad, i + 1, k)
          ELSE IF dx.out \/ dx.bad THEN DuoLoop(n1, f, o \/ dx.out, b \/ dx.bad, i + 1, k)
          ELSE DuoLoop(n1, f, o, b, i + 1, k)

\* the loop over the table of transformTrio
RECURSIVE TrioLoop(_, _, _, _, _, _)
TrioLoop(n1, f, o, b, i, k) ==
  IF i > Len(TrioRules) THEN [node |-> n1, fresh |-> f, out |-> o, bad |-> b]
  ELSE LET trule == TrioRules[i]
           tx == transformTrio(n1, trule[1], trule[2], trule[3], trule[4], k)
       IN IF tx.fresh THEN TrioLoop(tx.node, TRUE, o \/ tx.out, b \/ tx.bad, i + 1, k)
          ELSE TrioLoop(n1, f, o, b, i + 1, k)

\* a tail of Simplify that returns n1 without simplifying it again
AgainOnce(n1, o, b, k) ==
  [node |-> n1, fresh |-> TRUE, out |-> o, bad |-> b]

\* the tail of Simplify: if n1 != nil && n1 != n { return n1.Simplify() }
Again(n1, o, b, k) ==
  LET ar == Simplify(n1, k)
  IN [node |-> ar.node, fresh |-> TRUE, out |-> o \/ ar.out, bad |-> b \/ ar.bad]

\* a child rebuild that stores the new left child as the right child too
RebuildTwice(n, o, b, k) ==
  LET vl == IF n.left # Nil THEN Simplify(n.left, k) ELSE Same(Nil, FALSE, FALSE)
      vr == IF n.right # Nil THEN Simplify(n.right, k) ELSE Same(Nil, FALSE, FALSE)
      vn1 == Node(vl.node, n.op, vl.node, n.val)
  IN IF vl.fresh \/ vr.fresh
     THEN Again(vn1, o \/ vl.out \/ vr.out, b \/ vl.bad \/ vr.bad \/ ~valid(vn1), k)
     ELSE Same(n, o \/ vl.out \/ vr.out, b \/ vl.bad \/ vr.bad)

\* the child-rebuild step of Simplify (node.go 337-348), taken when no
\* transform returned another node
Rebuild(n, o, b, k) ==
  LET sl == IF n.left # Nil THEN Simplify(n.left, k) ELSE Same(Nil, FALSE, FALSE)
      sr == IF n.right # Nil THEN Simplify(n.right, k) ELSE Same(Nil, FALSE, FALSE)
      rn1 == Node(sl.node, n.op, sr.node, n.val)
  IN IF sl.fresh \/ sr.fresh
     THEN Again(rn1, o \/ sl.out \/ sr.out, b \/ sl.bad \/ sr.bad \/ ~valid(rn1), k)
     ELSE Same(n, o \/ sl.out \/ sr.out, b \/ sl.bad \/ sr.bad)

\* an even-power branch that does not ask whether the exponent is even
PowMinusAnyExp(n, k) ==
  LET we == Eval(n.right) IN
  IF we.err = NoErr
  THEN LET wa == Simplify(n.left.left, k)
           wb == Simplify(n.right, k)
           wn1 == Node(wa.node, OpPow, wb.node, NoVal)
       IN Again(wn1, wa.out \/ wb.out, wa.bad \/ wb.bad \/ ~valid(wn1), k)
  ELSE Same(n, FALSE, FALSE)

\* the even-power-of-a-negation branch of Simplify (node.go 302-308)
PowMinus(n, k) ==
  LET se == Eval(n.right) IN
  IF se.err = NoErr /\ Even(se.val)
  THEN LET sa == Simplify(n.left.left, k)
           sb == Simplify(n.right, k)
           pn1 == Node(sa.node, OpPow, sb.node, NoVal)
       IN Again(pn1, sa.out \/ sb.out, sa.bad \/ sb.bad \/ ~valid(pn1), k)
  ELSE Same(n, FALSE, FALSE)

Simplify(n, fuel) ==
  IF fuel = 0 THEN Same(n, TRUE, FALSE)
  ELSE IF n.op = OpMinus /\ n.left.op = OpMinus THEN
    LET sm == Simplify(n.left.left, fuel - 1)
    IN Again(sm.node, sm.out, sm.bad, fuel - 1)
  ELSE IF n.op = OpPow /\ n.left.op = OpMinus THEN PowMinus(n, fuel - 1)
  ELSE
    LET sd == DuoLoop(n, FALSE, FALSE, FALSE, 1, fuel - 1)
        st == TrioLoop(sd.node, sd.fresh, sd.out, sd.bad, 1, fuel - 1)
    IN IF ~st.fresh THEN Rebuild(n, st.out, st.bad, fuel - 1)
       ELSE Again(st.node, st.out, st.bad, fuel - 1)

\* ------------------------------------------------------------------------
\* The driver.  It builds a formula bottom-up with newValNode / newNode and
\* then calls Simplify, Eval or ToPolish and FromPolish on it; or it types a
\* text token by token and calls FromPolish on it.
\* ------------------------------------------------------------------------
SimplifyVals == {IntVal(1), IntVal(2)}

EvalVals == {IntVal(-1), IntVal(0), IntVal(2)}

PolishVals == {Rat(-3, 2), IntVal(10)}

Tokens ==
  { <<"2">>, <<"-", "1", "/", "2">>, <<"1", "/", "0">>, <<"+">>, <<"-">>, <<"/">>,
    <<"!">>, opNames(OpSqrt), <<"@">>, <<" ">> }

RECURSIVE NumOps(_)
NumOps(n) ==
  IF n = Nil \/ n.op = OpNull THEN 0
  ELSE 1 + NumOps(n.left) + NumOps(n.right)

LeafNodes(vals) == {newValNode(v) : v \in vals}

\* the formulas with at most one operator: the other operand of a binary node
Operands(vals) ==
  LeafNodes(vals)
  \cup {newNode(a, o, Nil) : a \in LeafNodes(vals), o \in OpFact..OpMinus}
  \cup {newNode(a, o, b) : a \in LeafNodes(vals), b \in LeafNodes(vals), o \in OpAdd..OpPow}

NoRes == [none |-> TRUE]

\* pool: the leaf values the driver draws from
VARIABLES node, text, phase, pool, simp, ev, parsed

vars == <<node, text, phase, pool, simp, ev, parsed>>

InitWith(vals) ==
  /\ pool = vals
  /\ node \in LeafNodes(vals)
  /\ text = <<>>
  /\ phase = "build"
  /\ simp = NoRes
  /\ ev = NoRes
  /\ parsed = NoRes

\* the operands the driver may still combine with node
Budget ==
  IF phase = "build"
  THEN {m \in Operands(pool) : NumOps(node) + NumOps(m) < MaxOps}
  ELSE {}

NewUnary(o) ==
  /\ phase = "build"
  /\ NumOps(node) < MaxOps
  /\ valid(newNode(node, o, Nil))
  /\ node' = newNode(node, o, Nil)
  /\ UNCHANGED <<text, phase, pool, simp, ev, parsed>>

NewBinaryLeft(o, m) ==
  /\ phase = "build"
  /\ valid(newNode(node, o, m))
  /\ node' = newNode(node, o, m)
  /\ UNCHANGED <<text, phase, pool, simp, ev, parsed>>

NewBinaryRight(o, m) ==
  /\ phase = "build"
  /\ valid(newNode(m, o, node))
  /\ node' = newNode(m, o, node)
  /\ UNCHANGED <<text, phase, pool, simp, ev, parsed>>

DoSimplify ==
  /\ phase = "build"
  /\ phase' = "simplified"
  /\ simp' = Simplify(node, MaxFuel)
  /\ UNCHANGED <<node, text, pool, ev, parsed>>

DoEval ==
  /\ phase = "build"
  /\ phase' = "evaluated"
  /\ ev' = Eval(node)
  /\ UNCHANGED <<node, text, pool, simp, parsed>>

DoToPolish ==
  /\ phase = "build"
  /\ phase' = "printed"
  /\ text' = ToPolish(node)
  /\ UNCHANGED <<node, pool, simp, ev, parsed>>

DoFromPolish ==
  /\ phase \in {"printed", "typing"}
  /\ phase' = "parsed"
  /\ parsed' = FromPolish(text)
  /\ UNCHANGED <<node, text, pool, simp, ev>>

\* the driver appends one more token to the text
TypeToken(tok) ==
  /\ phase = "typing"
  /\ Len(text) + Len(tok) <= MaxText
  /\ text' = text \o tok
  /\ UNCHANGED <<node, phase, pool, simp, ev, parsed>>

\* canonicalization
Init == InitWith(SimplifyVals)

Next ==
  \/ \E o \in OpFact..OpMinus : NewUnary(o)
  \/ \E o \in OpAdd..OpPow, m \in Budget : NewBinaryLeft(o, m)
  \/ \E o \in OpAdd..OpPow, m \in Budget : NewBinaryRight(o, m)
  \/ DoSimplify

Spec == Init /\ [][Next]_vars

\* evaluation
InitEval == InitWith(EvalVals)

NextEval ==
  \/ \E o \in OpFact..OpMinus : NewUnary(o)
  \/ \E o \in OpAdd..OpPow, m \in Budget : NewBinaryLeft(o, m)
  \/ \E o \in OpAdd..OpPow, m \in Budget : NewBinaryRight(o, m)
  \/ DoEval

SpecEval == InitEval /\ [][NextEval]_vars

\* serialization and parsing back
InitPolish == InitWith(PolishVals)

NextPolish ==
  \/ \E o \in OpFact..OpMinus : NewUnary(o)
  \/ \E o \in OpAdd..OpPow, m \in Budget : NewBinaryLeft(o, m)
  \/ \E o \in OpAdd..OpPow, m \in Budget : NewBinaryRight(o, m)
  \/ DoToPolish
  \/ DoFromPolish

SpecPolish == InitPolish /\ [][NextPolish]_vars

\* parsing of a typed text
InitParse ==
  /\ pool = {}
  /\ node = Nil
  /\ text = <<>>
  /\ phase = "typing"
  /\ simp = NoRes
  /\ ev = NoRes
  /\ parsed = NoRes

NextParse ==
  \/ \E tok \in Tokens : TypeToken(tok)
  \/ DoFromPolish

SpecParse == InitParse /\ [][NextParse]_vars

\* ------------------------------------------------------------------------
\* Properties
\* ------------------------------------------------------------------------
Simplified == phase = "simplified"

Canon(n) == Simplify(n, MaxFuel).node

IsLeaf(n) == n # Nil /\ n.op = OpNull

\* every node of the tree n is valid
RECURSIVE DeepValid(_)
DeepValid(n) ==
  /\ valid(n)
  /\ n.left # Nil => DeepValid(n.left)
  /\ n.right # Nil => DeepValid(n.right)

\* C1: canonicalization is idempotent: simplifying the result of Simplify
\* once more gives a tree structurally equal (Node.Equal) to that result.
Idempotent ==
  Simplified => Equal(Canon(simp.node), simp.node) /\ Canon(simp.node) = simp.node

IdempotentWitness ==
  /\ Simplified
  /\ simp.fresh
  /\ NumOps(node) >= 3
  /\ NumOps(simp.node) >= 2
  /\ Equal(Canon(simp.node), simp.node)

\* C2: canonicalization preserves the value: when Eval of the formula
\* succeeds with v, Eval of its canonical form succeeds with a value equal v.
ValuePreserved ==
  (Simplified /\ Eval(node).err = NoErr) =>
     /\ Eval(simp.node).err = NoErr
     /\ ValEqual(Eval(simp.node).val, Eval(node).val)

\* sqrt(a) * sqrt(b) was merged into sqrt(a * b) and both evaluate
ValuePreservedWitness ==
  /\ Simplified
  /\ node.op = OpMul /\ node.left.op = OpSqrt /\ node.right.op = OpSqrt
  /\ simp.node.op = OpSqrt
  /\ Eval(node).err = NoErr
  /\ ValEqual(Eval(simp.node).val, Eval(node).val)

\* C4: canonicalization terminates: no call of Simplify nests deeper than
\* the fuel, so the rewriting never cycles.
Terminates == Simplified => ~simp.out

TerminatesWitness ==
  /\ Simplified
  /\ simp.fresh /\ ~simp.out
  /\ NumOps(node) >= 3
  /\ node.op = OpAdd /\ node.left.op = OpMinus /\ node.right.op = OpMinus

\* a op (b op2 c) over leaves a, b, c
TrioShape(n, o, o2) ==
  /\ n.op = o /\ IsLeaf(n.left)
  /\ n.right.op = o2 /\ IsLeaf(n.right.left) /\ IsLeaf(n.right.right)

\* (a o3 b) o4 c from a op (b op c)
Reassoc(n, o3, o4) ==
  newNode(newNode(n.left, o3, n.right.left), o4, n.right.right)

Example531 == FromPolish(<<"-", " ", "5", " ", "-", " ", "3", " ", "1">>).node

\* C5 (as the code has it): for leaves a, b, c Simplify rewrites a+(b+c) to
\* (a+b)+c, a-(b-c) to (a-b)+c, a*(b*c) to (a*b)*c and a/(b/c) to (a/b)*c;
\* Simplify of "- 5 - 3 1" equals "+ - 5 3 1" and both evaluate to 3.
TrioAsCoded ==
  Simplified =>
    /\ TrioShape(node, OpAdd, OpAdd) => Equal(simp.node, Reassoc(node, OpAdd, OpAdd))
    /\ TrioShape(node, OpSub, OpSub) =>
         /\ Equal(simp.node, Reassoc(node, OpSub, OpAdd))
         /\ Equal(Canon(Example531),
                  FromPolish(<<"+", " ", "-", " ", "5", " ", "3", " ", "1">>).node)
         /\ Eval(Example531).val = IntVal(3)
         /\ Eval(Canon(Example531)).val = IntVal(3)
    /\ TrioShape(node, OpMul, OpMul) => Equal(simp.node, Reassoc(node, OpMul, OpMul))
    /\ TrioShape(node, OpDiv, OpDiv) => Equal(simp.node, Reassoc(node, OpDiv, OpMul))

TrioAsCodedWitness ==
  /\ Simplified
  /\ TrioShape(node, OpSub, OpSub)
  /\ simp.node.op = OpAdd /\ simp.node.left.op = OpSub

\* C5 (as claimed): for leaves a, b, c Simplify rewrites a+(b+c) to (a+b)+c,
\* a-(b-c) to (a+b)-c, a*(b*c) to (a*b)*c and a/(b/c) to (a*b)/c.
TrioAsClaimed ==
  Simplified =>
    /\ TrioShape(node, OpAdd, OpAdd) => Equal(simp.node, Reassoc(node, OpAdd, OpAdd))
    /\ TrioShape(node, OpSub, OpSub) => Equal(simp.node, Reassoc(node, OpAdd, OpSub))
    /\ TrioShape(node, OpMul, OpMul) => Equal(simp.node, Reassoc(node, OpMul, OpMul))
    /\ TrioShape(node, OpDiv, OpDiv) => Equal(simp.node, Reassoc(node, OpMul, OpDiv))

\* the rewrite rules that match at the root of n
DoubleNeg(n) == n.op = OpMinus /\ n.left.op = OpMinus

EvenPowNeg(n) ==
  /\ n.op = OpPow /\ n.left.op = OpMinus
  /\ Eval(n.right).err = NoErr /\ Even(Eval(n.right).val)

DuoMatch(n, d) ==
  /\ n.op = d[2]
  /\ (n.left.op = d[1] /\ n.left.left # Nil) \/ d[1] = OpNull
  /\ (n.right.op = d[3] /\ n.right.left # Nil) \/ d[3] = OpNull

TrioMatch(n, t) == n.op = t[1] /\ n.right.op = t[2]

RuleApplies(n) ==
  \/ DoubleNeg(n)
  \/ EvenPowNeg(n)
  \/ \E i \in 1..Len(DuoRules) : DuoMatch(n, DuoRules[i])
  \/ \E i \in 1..Len(TrioRules) : TrioMatch(n, TrioRules[i])

RECURSIVE NoRuleAnywhere(_)
NoRuleAnywhere(n) ==
  /\ ~RuleApplies(n)
  /\ n.left # Nil => NoRuleAnywhere(n.left)
  /\ n.right # Nil => NoRuleAnywhere(n.right)

\* C6: the canonical form is a normal form at every node: no rewrite rule
\* matches at the root or at any descendant of the result of Simplify.
NormalForm == Simplified => NoRuleAnywhere(simp.node)

\* C7: for (--x)^n Simplify returns the canonical form of x^n when Eval(n)
\* succeeds with an even value, and returns the node itself, with no error,
\* when Eval(n) gives a non-even value or fails.
EvenPower ==
  (Simplified /\ node.op = OpPow /\ node.left.op = OpMinus) =>
     IF Eval(node.right).err = NoErr /\ Even(Eval(node.right).val)
     THEN Equal(simp.node, Canon(newNode(node.left.left, OpPow, node.right)))
     ELSE Equal(simp.node, node) /\ simp.node = node /\ ~simp.fresh

\* the exponent does not evaluate and the rule is skipped
EvenPowerWitness ==
  /\ Simplified
  /\ node.op = OpPow /\ node.left.op = OpMinus
  /\ Eval(node.right).err # NoErr
  /\ simp.node = node

\* C10: Simplify keeps every node valid: every node of the result and every
\* node literal built on the way satisfies valid(), so Eval and ToPolish of
\* the result never take the "invalid formula" path.
StaysValid ==
  Simplified =>
    /\ DeepValid(simp.node)
    /\ ~simp.bad
    /\ Eval(simp.node).err # "invalid formula"
    /\ \A i \in 1..Len(ToPolish(simp.node)) : ToPolish(simp.node)[i] # InvalidText[1]

StaysValidWitness ==
  /\ Simplified
  /\ simp.fresh
  /\ node.op = OpDiv /\ node.right.op = OpMinus
  /\ simp.node.op = OpMinus
  /\ DeepValid(simp.node)

\* C9: Eval of a binary node evaluates the left child first: a failure of
\* the left child is returned as it is and the right child is not evaluated;
\* otherwise a failure of the right child is returned as it is; a unary node
\* returns its child's failure.  So Eval succeeds only if every subtree does.
RECURSIVE AllEval(_)
AllEval(n) ==
  /\ Eval(n).err = NoErr
  /\ n.left # Nil => AllEval(n.left)
  /\ n.right # Nil => AllEval(n.right)

EvalPropagates ==
  phase = "evaluated" =>
    /\ (binary(node.op) /\ Eval(node.left).err # NoErr) =>
         /\ ev.err = Eval(node.left).err
         /\ ev.val = NoVal
         /\ ev.calls = 1 + Eval(node.left).calls
    /\ (binary(node.op) /\ Eval(node.left).err = NoErr /\ Eval(node.right).err # NoErr) =>
         /\ ev.err = Eval(node.right).err
         /\ ev.val = NoVal
         /\ ev.calls = 1 + Eval(node.left).calls + Eval(node.right).calls
    /\ (unary(node.op) /\ Eval(node.left).err # NoErr) =>
         /\ ev.err = Eval(node.left).err
         /\ ev.val = NoVal
    /\ ev.err = NoErr => AllEval(node)

\* both children fail, with different errors, and the left one is reported
EvalPropagatesWitness ==
  /\ phase = "evaluated"
  /\ binary(node.op)
  /\ Eval(node.left).err = "division by zero"
  /\ Eval(node.right).err = "root of a negative value"
  /\ ev.err = "division by zero"

\* C3: for every valid tree t FromPolish(t.ToPolish()) succeeds and returns
\* a tree structurally equal to t.
RoundTrip ==
  phase = "parsed" =>
    /\ parsed.err = NoErr
    /\ Equal(parsed.node, node)
    /\ Equal(node, parsed.node)

\* a negative leaf under binary '-' and one under unary '--'
RoundTripWitness ==
  /\ phase = "parsed"
  /\ node.op = OpSub
  /\ IsLeaf(node.left) /\ Negative(node.left.val)
  /\ node.right.op = OpMinus
  /\ IsLeaf(node.right.left) /\ Negative(node.right.left.val)
  /\ Equal(parsed.node, node)

\* the text s starts with one of the binary operator characters
BinaryLead(s) ==
  /\ s # <<>>
  /\ ratRx(s) = 0
  /\ ~HasPrefix(s, <<"-", "-">>)
  /\ binary(OpOfChar(s[1]))

\* following first operands from s leads to a token that is neither a
\* rational constant nor an operator
RECURSIVE LeadsToUnknown(_)
LeadsToUnknown(s0) ==
  LET ls == TrimSpace(s0) IN
  /\ ls # <<>>
  /\ ratRx(ls) = 0
  /\ IF HasPrefix(ls, opNames(OpSqrt)) THEN LeadsToUnknown(Drop(ls, 4))
     ELSE IF HasPrefix(ls, <<"-", "-">>) THEN LeadsToUnknown(Drop(ls, 2))
     ELSE IF OpOfChar(ls[1]) # OpNull THEN LeadsToUnknown(Drop(ls, 1))
     ELSE TRUE

\* following first operands from s leads to a binary operator whose first
\* operand parses and whose second operand is missing or does not parse
RECURSIVE LeadsToHalf(_)
LeadsToHalf(s0) ==
  LET hs == TrimSpace(s0) IN
  /\ hs # <<>>
  /\ ratRx(hs) = 0
  /\ IF HasPrefix(hs, opNames(OpSqrt)) THEN LeadsToHalf(Drop(hs, 4))
     ELSE IF HasPrefix(hs, <<"-", "-">>) THEN LeadsToHalf(Drop(hs, 2))
     ELSE IF unary(OpOfChar(hs[1])) THEN LeadsToHalf(Drop(hs, 1))
     ELSE IF binary(OpOfChar(hs[1])) THEN
       \/ /\ Len(hs) > 1
          /\ parseNodeFromString(Drop(hs, 1)).err = NoErr
          /\ parseNodeFromString(parseNodeFromString(Drop(hs, 1)).rest).err # NoErr
       \/ LeadsToHalf(Drop(hs, 1))
     ELSE FALSE

\* C8: FromPolish returns an error and no tree (a) for an empty or blank
\* text, (b) for a binary operator followed by one well-formed operand and
\* then nothing or something that does not parse, as "second operand
\* missing" whatever the cause, and (c) for a first-operand position that
\* starts with neither a rational constant nor an operator token, as
\* "unrecognized operator".
ParseErrors ==
  phase = "parsed" =>
    LET s == TrimSpace(text) IN
    /\ parsed.err # NoErr => parsed.node = Nil
    /\ s = <<>> => parsed.err # NoErr /\ parsed.reason = "empty string"
    /\ (/\ BinaryLead(s)
        /\ Len(s) > 1
        /\ parseNodeFromString(Drop(s, 1)).err = NoErr
        /\ parseNodeFromString(parseNodeFromString(Drop(s, 1)).rest).err # NoErr)
         => parsed.err # NoErr /\ parsed.reason = "second operand missing"
    /\ LeadsToHalf(s) => parsed.err # NoErr /\ parsed.reason = "second operand missing"
    /\ LeadsToUnknown(s) => parsed.err # NoErr /\ parsed.reason = "unrecognized operator"

\* "+ 2 @": the second operand is an unknown token, reported as missing
ParseErrorsWitness ==
  /\ phase = "parsed"
  /\ BinaryLead(TrimSpace(text))
  /\ parseNodeFromString(Drop(TrimSpace(text), 1)).err = NoErr
  /\ parseNodeFromString(parseNodeFromString(Drop(TrimSpace(text), 1)).rest).err
       = "unrecognized operator"
  /\ parsed.reason = "second operand missing"

====
